---- MODULE Spec2Model ----
(***************************************************************************)
(* Model of the failure-discovery and analysis pipeline of                 *)
(* FASTAPI_BACKEND/main.py: the depth-bounded directory crawler            *)
(* (collect_logs_with_failed_check), the download cache                    *)
(* (download_log_file) and the orchestrator (run_analysis) with its pool   *)
(* of workers (analyze_one).                                               *)
(*                                                                         *)
(* Strings that the code inspects (hrefs) are sequences of one-character   *)
(* strings, so that endswith / startswith / split / urljoin are computed.  *)
(* A URL is a record [dirs, file]: the directory segments of its path and  *)
(* the last path segment (<<>> for a URL that ends with "/").               *)
(***************************************************************************)
EXTENDS Integers, Sequences, FiniteSets, TLC

VARIABLES
    web,          \* the HTTP server: URL -> sequence of anchors of the page
    max_depth,    \* argument of collect_logs_with_failed_check
    crawl_pc,     \* position inside collect_logs_with_failed_check
    stack,        \* the recursion stack of crawl(url, depth)
    all_logs,     \* all_logs list (main.py:116)
    failed_logs,  \* failed_logs list (main.py:117)
    visited,      \* history: every urlopen made by crawl
    crawl_ret,    \* the value returned by collect_logs_with_failed_check
    progress_data, \* progress_data: report id -> record (main.py:89)
    run_pc,       \* position of the background task inside run_analysis
    fs,           \* LOG_DOWNLOAD_DIR: file name -> content of the file
    tasks,        \* the units of work analyze_one(idx, log_url) of the pool
    submitted,    \* number of futures created by executor.submit
    collected,    \* number of futures whose result() has been taken
    analyzed_logs, \* analyzed_logs list (main.py:529)
    requests,     \* number of POST /start-analysis requests still to come
    cur,          \* report id of the run whose thread state the variables hold
    parked,       \* report id -> thread state of the other runs
    log_lines,    \* the lines of the file read by extract_error_blocks
    line_no,      \* number of lines consumed by its loop
    error_blocks, \* error_blocks list (utils.py:5)
    current_block, \* current_block list (utils.py:6)
    in_error_block, \* in_error_block flag (utils.py:7)
    ex_pc         \* position inside extract_error_blocks

schedVars == <<requests, cur, parked>>

extractVars == <<log_lines, line_no, error_blocks, current_block, in_error_block, ex_pc>>

runVars == <<progress_data, run_pc, fs, tasks, submitted, collected, analyzed_logs>>

crawlVars == <<web, max_depth, crawl_pc, stack, all_logs, failed_logs,
               visited, crawl_ret>>

----------------------------------------------------------------------------
(* Bounds *)

MaxDepthBound == 2

----------------------------------------------------------------------------
(* Strings *)

DotLog == <<".", "l", "o", "g">>
Slash == <<"/">>
ParentHref == <<".", ".", "/">>
SelfHref == <<".", "/">>

StartsWith(s, pre) ==
    /\ Len(s) >= Len(pre)
    /\ SubSeq(s, 1, Len(pre)) = pre

EndsWith(s, suf) ==
    /\ Len(s) >= Len(suf)
    /\ SubSeq(s, Len(s) - Len(suf) + 1, Len(s)) = suf

\* s.split("/")
RECURSIVE Split(_)
Split(s) ==
    IF s = <<>> THEN << <<>> >>
    ELSE LET rest == Split(Tail(s))
         IN  IF Head(s) = "/"
             THEN << <<>> >> \o rest
             ELSE << <<Head(s)>> \o Head(rest) >> \o Tail(rest)

\* the dot-segment removal of urllib.parse.urljoin
RECURSIVE Resolve(_, _)
Resolve(acc, segs) ==
    IF segs = <<>> THEN acc
    ELSE LET seg == Head(segs)
         IN  IF seg = <<".", ".">>
             THEN Resolve(IF acc = <<>> THEN acc
                          ELSE SubSeq(acc, 1, Len(acc) - 1), Tail(segs))
             ELSE IF seg = <<".">> \/ seg = <<>>
             THEN Resolve(acc, Tail(segs))
             ELSE Resolve(Append(acc, seg), Tail(segs))

\* urljoin that forgets to drop the last segment of the base path
urljoin_NoBaseDrop(base, href) ==
    IF href = <<>> THEN base
    ELSE IF Head(href) = "?" THEN [dirs |-> base.dirs, file |-> base.file \o href]
    ELSE LET segs == Split(href)
             start == IF Head(href) = "/" THEN <<>> ELSE Append(base.dirs, base.file)
             last == segs[Len(segs)]
             dotLast == last = <<".">> \/ last = <<".", ".">>
             body == IF dotLast THEN segs ELSE SubSeq(segs, 1, Len(segs) - 1)
         IN  [dirs |-> Resolve(start, body),
              file |-> IF dotLast THEN <<>> ELSE last]

\* urllib.request.urljoin(url, href) for the hrefs of a directory listing
urljoin(base, href) ==
    IF href = <<>> THEN base
    ELSE IF Head(href) = "?" THEN [dirs |-> base.dirs, file |-> base.file \o href]
    ELSE LET segs == Split(href)
             start == IF Head(href) = "/" THEN <<>> ELSE base.dirs
             last == segs[Len(segs)]
             dotLast == last = <<".">> \/ last = <<".", ".">>
             body == IF dotLast THEN segs ELSE SubSeq(segs, 1, Len(segs) - 1)
         IN  [dirs |-> Resolve(start, body),
              file |-> IF dotLast THEN <<>> ELSE last]

\* link.text.strip().lower() == "failed"
IsFailedText(text) == text \in {"Failed", " FAILED ", "failed"}

\* "color: red" in link.get("style", "").lower()
HasRedStyle(style) == style \in {"color: red", "Color: Red; font-weight: bold"}

----------------------------------------------------------------------------
(* The HTTP server: directory listings *)

U(dirs, file) == [dirs |-> dirs, file |-> file]

\* base_path of run_analysis: a file URL .../s/e (suite directory s, file e)
BASE_PATH == U(<< <<"s">> >>, <<"e">>)
SuiteDir == U(<< <<"s">> >>, <<>>)
TopDir == U(<<>>, <<>>)
DirA == U(<< <<"s">>, <<"a">> >>, <<>>)
DirAC == U(<< <<"s">>, <<"a">>, <<"c">> >>, <<>>)
DirACD == U(<< <<"s">>, <<"a">>, <<"c">>, <<"d">> >>, <<>>)

DirHref(n) == <<n, "/">>
LogHref(n) == <<n>> \o DotLog

Anchor(href, text, style) == [href |-> href, text |-> text, style |-> style]
Plain(href) == Anchor(href, "link", "")
Marker(href) == Anchor(href, "Failed", "color: red")

\* the example listing: a/, b.log, Failed(red) -> b.log
WebExample ==
    (BASE_PATH :> <<Plain(DirHref("a")), Plain(LogHref("b")), Marker(LogHref("b"))>>)
    @@ (DirA :> <<>>)

\* a tree four levels deep, with parent links, a query link and markers
WebDeep ==
    (BASE_PATH :> <<Plain(ParentHref), Plain(DirHref("a")), Plain(LogHref("b"))>>)
    @@ (DirA :> <<Plain(<<"?", "C", "/">>), Plain(DirHref("c")),
                  Anchor(LogHref("t"), " FAILED ", "Color: Red; font-weight: bold"),
                  Plain(ParentHref)>>)
    @@ (DirAC :> <<Marker(LogHref("t")), Plain(DirHref("d")),
                   Anchor(LogHref("u"), "Failed", "color: green")>>)
    @@ (DirACD :> <<Marker(LogHref("b")), Plain(DirHref("d"))>>)
    @@ (SuiteDir :> <<Plain(LogHref("x"))>>)
    @@ (TopDir :> <<Plain(LogHref("x"))>>)

\* self links, and one failed log marked twice on a page and on other pages
WebSelf ==
    (BASE_PATH :> <<Plain(SelfHref), Marker(LogHref("b")), Marker(LogHref("b"))>>)
    @@ (SuiteDir :> <<Plain(SelfHref), Marker(LogHref("b")), Plain(DirHref("a"))>>)
    @@ (DirA :> <<Plain(ParentHref), Marker(ParentHref \o LogHref("b"))>>)
    @@ (TopDir :> <<Plain(LogHref("x"))>>)

\* three failed logs, two of them with the same file name
WebSameName ==
    (BASE_PATH :> <<Marker(LogHref("t")), Plain(DirHref("a")), Marker(LogHref("b"))>>)
    @@ (DirA :> <<Marker(LogHref("t"))>>)

\* four failed logs with four file names, more than the pool has threads
WebFour ==
    (BASE_PATH :> <<Marker(LogHref("b")), Marker(LogHref("t")),
                    Marker(LogHref("u")), Marker(LogHref("x"))>>)

\* one failed log on the root listing
WebOne == (BASE_PATH :> <<Marker(LogHref("b"))>>)

\* logs but no failed marker: wrong text, no red style, marker on a directory
WebNone ==
    (BASE_PATH :> <<Plain(LogHref("b")), Plain(<<"/", "s", "/", "a", "/">>), Plain(<<>>)>>)
    @@ (DirA :> <<Anchor(LogHref("t"), "Passed", "color: red"),
                  Anchor(LogHref("t"), "Failed", ""),
                  Anchor(DirHref("c"), "Failed", "color: red")>>)

\* the root is not a listing at all (no anchors)
WebEmpty == (BASE_PATH :> <<>>)

\* a file of LOG_DOWNLOAD_DIR: absent, empty (just created), partial, or
\* full with the content served at a URL
NoUrl == U(<<>>, <<"-">>)
File(state, url) == [state |-> state, of |-> url]
Absent == File("absent", NoUrl)
Empty == File("empty", NoUrl)
Partial == File("partial", NoUrl)
Full(url) == File("full", url)

\* the file names under LOG_DOWNLOAD_DIR
Paths == {LogHref(n) : n \in {"b", "t", "u", "x"}}

CrawlWebs == {WebExample, WebDeep, WebSelf, WebSameName, WebFour, WebNone, WebEmpty}

----------------------------------------------------------------------------
(* collect_logs_with_failed_check *)

\* an off-by-one depth test
DepthExceeded_OffByOne(depth) == depth > max_depth + 1

\* main.py:120
DepthExceeded(depth) == depth > max_depth

\* main.py:128
IsLogHref(href) == EndsWith(href, DotLog)

\* a marker test that takes any href, a directory included
IsFailedMarker_AnyHref(link) ==
    /\ IsFailedText(link.text)
    /\ HasRedStyle(link.style)

\* main.py:130-132
IsFailedMarker(link) ==
    /\ IsFailedText(link.text)
    /\ HasRedStyle(link.style)
    /\ link.href # <<>>
    /\ EndsWith(link.href, DotLog)

\* main.py:135
ShouldRecurse(href) ==
    /\ EndsWith(href, Slash)
    /\ ~StartsWith(href, <<"?">>)
    /\ href # ParentHref

\* return from the current crawl(url, depth): pop its frame
PopFrame(stk) == SubSeq(stk, 1, Len(stk) - 1)

\* a fetch error that unwinds the whole recursion
OnFetchError_Abort(stk) == <<>>

\* main.py:137-138: the except clause of crawl ends this crawl call only
OnFetchError(stk) == PopFrame(stk)

AfterPop(stk) == IF stk = <<>> THEN "finish" ELSE "loop"

Range(s) == {s[i] : i \in 1..Len(s)}

Perms(S) ==
    {f \in [1..Cardinality(S) -> S] : \A x \in S : \E i \in 1..Cardinality(S) : f[i] = x}

\* returning the list as collected
DedupFailed_Keep(list) == {list}

\* main.py:142: list(set(failed_logs)), in any iteration order of the set
DedupFailed(list) == Perms(Range(list))

Top == stack[Len(stack)]

\* main.py:115-117, 140
CollectCall(base_url) ==
    /\ crawl_pc = "idle"
    /\ all_logs' = <<>>
    /\ failed_logs' = <<>>
    /\ stack' = <<[url |-> base_url, depth |-> 0, via |-> <<>>, i |-> 1]>>
    /\ crawl_pc' = "enter"
    /\ UNCHANGED <<web, max_depth, visited, crawl_ret>>

\* collect_logs_with_failed_check called on its own
CollectStart ==
    /\ CollectCall(BASE_PATH)
    /\ UNCHANGED runVars
    /\ UNCHANGED <<schedVars, extractVars>>

\* the anchors followed from the root to the call on top of the stack: the
\* frame of each caller stands just after the anchor it followed
LinkPath(stk) == [k \in 1..(Len(stk) - 1) |-> stk[k].i - 1]

\* main.py:120-124, 137-138: the depth test, then the fetch of the page
CrawlEnter ==
    /\ crawl_pc = "enter"
    /\ IF DepthExceeded(Top.depth)
       THEN /\ stack' = PopFrame(stack)
            /\ UNCHANGED visited
       ELSE \E ok \in BOOLEAN :
            /\ ok => Top.url \in DOMAIN web
            /\ visited' = visited \cup
                 {[url |-> Top.url, depth |-> Top.depth, via |-> Top.via, ok |-> ok,
                   path |-> LinkPath(stack)]}
            /\ stack' = IF ok THEN stack ELSE OnFetchError(stack)
    /\ crawl_pc' = AfterPop(stack')
    /\ UNCHANGED <<web, max_depth, all_logs, failed_logs, crawl_ret>>
    /\ UNCHANGED runVars
    /\ UNCHANGED <<schedVars, extractVars>>

\* main.py:125-136: one iteration of the loop over the anchors of the page
CrawlAnchor ==
    /\ crawl_pc = "loop"
    /\ Top.i <= Len(web[Top.url])
    /\ LET link == web[Top.url][Top.i]
           href == link.href
           full_url == urljoin(Top.url, href)
           here == [Top EXCEPT !.i = @ + 1]
           rest == PopFrame(stack)
       IN  /\ all_logs' = IF IsLogHref(href) THEN Append(all_logs, full_url)
                          ELSE all_logs
           /\ failed_logs' = IF IsFailedMarker(link)
                             THEN Append(failed_logs, urljoin(Top.url, link.href))
                             ELSE failed_logs
           /\ IF ShouldRecurse(href)
              THEN /\ stack' = rest \o <<here, [url |-> full_url, depth |-> Top.depth + 1,
                                                via |-> href, i |-> 1]>>
                   /\ crawl_pc' = "enter"
              ELSE /\ stack' = Append(rest, here)
                   /\ crawl_pc' = "loop"
    /\ UNCHANGED <<web, max_depth, visited, crawl_ret>>
    /\ UNCHANGED runVars
    /\ UNCHANGED <<schedVars, extractVars>>

\* main.py:125: the loop is over, crawl(url, depth) returns
CrawlPageEnd ==
    /\ crawl_pc = "loop"
    /\ Top.i > Len(web[Top.url])
    /\ stack' = PopFrame(stack)
    /\ crawl_pc' = AfterPop(stack')
    /\ UNCHANGED <<web, max_depth, all_logs, failed_logs, visited, crawl_ret>>
    /\ UNCHANGED runVars
    /\ UNCHANGED <<schedVars, extractVars>>

\* main.py:141-142: the debugger stop (continued, or quit: BdbQuit is raised),
\* then the return of the two lists
CollectReturn ==
    /\ crawl_pc = "finish"
    /\ \/ /\ \E fl \in DedupFailed(failed_logs) :
               crawl_ret' = [all |-> all_logs, failed |-> fl]
          /\ crawl_pc' = "returned"
       \/ /\ crawl_pc' = "raised"
          /\ UNCHANGED crawl_ret
    /\ UNCHANGED <<web, max_depth, stack, all_logs, failed_logs, visited>>
    /\ UNCHANGED runVars
    /\ UNCHANGED <<schedVars, extractVars>>

NoRet == [all |-> <<>>, failed |-> <<>>]

\* extract_error_blocks is not running
ExtractIdle ==
    /\ log_lines = <<>>
    /\ line_no = 0
    /\ error_blocks = <<>>
    /\ current_block = <<>>
    /\ in_error_block = FALSE
    /\ ex_pc = "idle"

InitCrawl ==
    /\ web \in CrawlWebs
    /\ max_depth \in 0..MaxDepthBound
    /\ crawl_pc = "idle"
    /\ stack = <<>>
    /\ all_logs = <<>>
    /\ failed_logs = <<>>
    /\ visited = {}
    /\ crawl_ret = NoRet
    /\ progress_data = <<>>
    /\ run_pc = "none"
    /\ fs = [p \in Paths |-> Absent]
    /\ tasks = <<>>
    /\ submitted = 0
    /\ collected = 0
    /\ analyzed_logs = <<>>
    /\ requests = 0
    /\ cur = 0
    /\ parked = <<>>
    /\ ExtractIdle

NextCrawl ==
    \/ CollectStart
    \/ CrawlEnter
    \/ CrawlAnchor
    \/ CrawlPageEnd
    \/ CollectReturn

vars == <<crawlVars, runVars, schedVars, extractVars>>

SpecCrawl == InitCrawl /\ [][NextCrawl]_vars

\* the call of collect_logs_with_failed_check is a sequential program: it
\* takes its next step as long as it has one
SpecCrawlFair == SpecCrawl /\ WF_vars(NextCrawl)

----------------------------------------------------------------------------
(* download_log_file, analyze_with_ai, run_analysis *)

\* ThreadPoolExecutor(max_workers=3)
MaxWorkers == 3

\* collect_logs_with_failed_check(base_path, max_depth=2)
RunMaxDepth == 2

\* the runs of one execution of the server
MaxRuns == 2

\* uuid.uuid4() of start_analysis
ReportIds == 1..MaxRuns

RunWebs == {WebExample, WebSelf, WebSameName, WebNone}

Msg(kind, idx, n, name) == [kind |-> kind, idx |-> idx, n |-> n, name |-> name]

\* the report id of the run
Rid == cur

Status == progress_data[Rid].status

\* a status write that lands in the record of every run
SetStatus_AllKeys(msg) ==
    progress_data' = [k \in DOMAIN progress_data |->
                         [progress_data[k] EXCEPT !.status = <<msg>>]]

\* progress_data[report_id]["status"] = msg
SetStatus(msg) == progress_data' = [progress_data EXCEPT ![Rid].status = <<msg>>]

\* progress_data[report_id]["status"] += msg
AddStatus(msg) == progress_data' = [progress_data EXCEPT ![Rid].status = Append(@, msg)]

\* main.py:551-552
SetError == SetStatus(Msg("Error", 0, 0, <<>>))

\* main.py:532: log_url.split("/")[-1]
LogName(log_url) == log_url.file

\* main.py:533: os.path.join(LOG_DOWNLOAD_DIR, log_name)
SavePath(log_url) == LogName(log_url)

NumFailed == Len(crawl_ret.failed)

TaskUrl(i) == crawl_ret.failed[i]
TaskPath(i) == SavePath(TaskUrl(i))

NewTask == [pc |-> "queued", late |-> FALSE, fetched |-> FALSE, dl |-> "none",
            content |-> Absent, torn |-> FALSE, res |-> <<>>, doneAt |-> 0, ai |-> 0, pipeline |-> "none"]

\* the units of work a pool thread is executing
Running == {i \in 1..Len(tasks) : tasks[i].pc \notin {"queued", "done"}}

\* the units of work whose analyze_one call has returned
Finished == {i \in 1..Len(tasks) : tasks[i].pc = "done"}

\* the calls of download_log_file that hold the file open for writing
Writing(path) ==
    {i \in 1..Len(tasks) : TaskPath(i) = path /\ tasks[i].pc \in {"dl_read", "dl_write"}}

\* the paths for which a call of download_log_file has returned True
OkPaths == {TaskPath(i) : i \in {j \in 1..Len(tasks) : tasks[j].dl = "True"}}

\* the exists test removed
FileExists_Never(path) == FALSE

\* main.py:145: os.path.exists(save_path)
FileExists(path) == fs[path].state # "absent"

\* the state of the thread that executes one run_analysis call
Locals ==
    [max_depth |-> max_depth, crawl_pc |-> crawl_pc, stack |-> stack,
     all_logs |-> all_logs, failed_logs |-> failed_logs, visited |-> visited,
     crawl_ret |-> crawl_ret, run_pc |-> run_pc, tasks |-> tasks,
     submitted |-> submitted, collected |-> collected,
     analyzed_logs |-> analyzed_logs]

\* the thread state L becomes the one held by the variables
Load(L) ==
    /\ max_depth' = L.max_depth
    /\ crawl_pc' = L.crawl_pc
    /\ stack' = L.stack
    /\ all_logs' = L.all_logs
    /\ failed_logs' = L.failed_logs
    /\ visited' = L.visited
    /\ crawl_ret' = L.crawl_ret
    /\ run_pc' = L.run_pc
    /\ tasks' = L.tasks
    /\ submitted' = L.submitted
    /\ collected' = L.collected
    /\ analyzed_logs' = L.analyzed_logs

\* main.py:510: the thread of background_tasks.add_task(run_analysis, ...)
NewRun ==
    [max_depth |-> RunMaxDepth, crawl_pc |-> "idle", stack |-> <<>>,
     all_logs |-> <<>>, failed_logs |-> <<>>, visited |-> {},
     crawl_ret |-> NoRet, run_pc |-> "debug", tasks |-> <<>>,
     submitted |-> 0, collected |-> 0, analyzed_logs |-> <<>>]

\* main.py:504: str(uuid.uuid4()), an id no earlier request has
NewReportId == CHOOSE r \in ReportIds \ DOMAIN progress_data : TRUE

\* main.py:502-511: the record of the new run is created and its background
\* thread starts; the thread of a run in progress is set aside
start_analysis ==
    /\ requests > 0
    /\ ReportIds \ DOMAIN progress_data # {}
    /\ progress_data' = (NewReportId :> [status |-> <<Msg("Initializing", 0, 0, <<>>)>>,
                                        total_logs |-> 0, failed_logs |-> 0])
                        @@ progress_data
    /\ requests' = requests - 1
    /\ cur' = NewReportId
    /\ parked' = IF cur = 0 THEN parked ELSE (cur :> Locals) @@ parked
    /\ Load(NewRun)
    /\ UNCHANGED <<web, fs, extractVars>>

\* main.py:514: pdb.set_trace() before the try; the debugger is continued, or
\* quit, and then BdbQuit leaves run_analysis
RunDebug ==
    /\ run_pc = "debug"
    /\ run_pc' \in {"probe", "raised"}
    /\ UNCHANGED <<crawlVars, progress_data, fs, tasks, submitted, collected, analyzed_logs>>
    /\ UNCHANGED <<schedVars, extractVars>>

\* main.py:517-518: urlopen(base_path); a failure goes to the except clause
RunProbe ==
    /\ run_pc = "probe"
    /\ \/ /\ run_pc' = "collect"
          /\ UNCHANGED progress_data
       \/ /\ SetError
          /\ run_pc' = "done"
    /\ UNCHANGED <<crawlVars, fs, tasks, submitted, collected, analyzed_logs>>
    /\ UNCHANGED <<schedVars, extractVars>>

\* main.py:520: the call of collect_logs_with_failed_check
RunCollectCall ==
    /\ run_pc = "collect"
    /\ CollectCall(BASE_PATH)
    /\ run_pc' = "crawling"
    /\ UNCHANGED <<progress_data, fs, tasks, submitted, collected, analyzed_logs>>
    /\ UNCHANGED <<schedVars, extractVars>>

\* main.py:520, 551-552: BdbQuit raised in collect_logs_with_failed_check
RunCollectRaised ==
    /\ run_pc = "crawling"
    /\ crawl_pc = "raised"
    /\ SetError
    /\ run_pc' = "done"
    /\ UNCHANGED <<crawlVars, fs, tasks, submitted, collected, analyzed_logs>>
    /\ UNCHANGED <<schedVars, extractVars>>

\* main.py:522
RunRecordTotal ==
    /\ run_pc = "crawling"
    /\ crawl_pc = "returned"
    /\ progress_data' = [progress_data EXCEPT ![Rid].total_logs = Len(crawl_ret.all)]
    /\ run_pc' = "record"
    /\ UNCHANGED <<crawlVars, fs, tasks, submitted, collected, analyzed_logs>>
    /\ UNCHANGED <<schedVars, extractVars>>

\* main.py:523
RunRecordFailed ==
    /\ run_pc = "record"
    /\ progress_data' = [progress_data EXCEPT ![Rid].failed_logs = Len(crawl_ret.failed)]
    /\ run_pc' = "check"
    /\ UNCHANGED <<crawlVars, fs, tasks, submitted, collected, analyzed_logs>>
    /\ UNCHANGED <<schedVars, extractVars>>

\* the test of main.py:525 that never takes the early return
NoFailedLogs_Never(failed) == FALSE

\* main.py:525: not failed_logs
NoFailedLogs(failed) == failed = <<>>

\* main.py:525-529
RunCheck ==
    /\ run_pc = "check"
    /\ IF NoFailedLogs(crawl_ret.failed)
       THEN /\ AddStatus(Msg("NoFailed", 0, 0, <<>>))
            /\ run_pc' = "done"
            /\ UNCHANGED analyzed_logs
       ELSE /\ analyzed_logs' = <<>>
            /\ run_pc' = "submit"
            /\ UNCHANGED progress_data
    /\ UNCHANGED <<crawlVars, fs, tasks, submitted, collected>>
    /\ UNCHANGED <<schedVars, extractVars>>

\* main.py:541: executor.submit(analyze_one, idx, log_url), in list order
RunSubmit ==
    /\ run_pc = "submit"
    /\ IF submitted < NumFailed
       THEN /\ tasks' = Append(tasks, NewTask)
            /\ submitted' = submitted + 1
            /\ UNCHANGED run_pc
       ELSE /\ run_pc' = "gather"
            /\ UNCHANGED <<tasks, submitted>>
    /\ UNCHANGED <<crawlVars, progress_data, fs, collected, analyzed_logs>>
    /\ UNCHANGED <<schedVars, extractVars>>

\* a pool that starts a thread for every unit of work
WorkerFree_Always == TRUE

\* main.py:540: ThreadPoolExecutor(max_workers=3) has a thread that is idle
WorkerFree == Cardinality(Running) < MaxWorkers

\* main.py:531-534: a pool thread takes the oldest queued unit of work and
\* writes the "Checking" status
TaskStart(i) ==
    /\ tasks[i].pc = "queued"
    /\ \A j \in 1..(i - 1) : tasks[j].pc # "queued"
    /\ WorkerFree
    /\ SetStatus(Msg("Checking", i, NumFailed, LogName(TaskUrl(i))))
    /\ tasks' = [tasks EXCEPT ![i].pc = "dl_check"]
    /\ UNCHANGED <<crawlVars, run_pc, fs, submitted, collected, analyzed_logs>>
    /\ UNCHANGED <<schedVars, extractVars>>

\* main.py:145-146
DlCheck(i) ==
    /\ tasks[i].pc = "dl_check"
    /\ tasks' = [tasks EXCEPT
                   ![i].late = TaskPath(i) \in OkPaths,
                   ![i].dl = IF FileExists(TaskPath(i)) THEN "True" ELSE @,
                   ![i].pc = IF FileExists(TaskPath(i)) THEN "dl_done" ELSE "dl_urlopen"]
    /\ UNCHANGED <<crawlVars, progress_data, run_pc, fs, submitted, collected, analyzed_logs>>
    /\ UNCHANGED <<schedVars, extractVars>>

\* main.py:148: urllib.request.urlopen(url), which may fail (151-153)
DlUrlopen(i) ==
    /\ tasks[i].pc = "dl_urlopen"
    /\ \/ tasks' = [tasks EXCEPT ![i].fetched = TRUE, ![i].pc = "dl_open"]
       \/ tasks' = [tasks EXCEPT ![i].dl = "False", ![i].pc = "dl_done"]
    /\ UNCHANGED <<crawlVars, progress_data, run_pc, fs, submitted, collected, analyzed_logs>>
    /\ UNCHANGED <<schedVars, extractVars>>

\* main.py:148: open(save_path, 'wb') creates or truncates the file, or fails
DlOpen(i) ==
    /\ tasks[i].pc = "dl_open"
    /\ \/ /\ fs' = [fs EXCEPT ![TaskPath(i)] = Empty]
          /\ tasks' = [tasks EXCEPT ![i].pc = "dl_read"]
       \/ /\ tasks' = [tasks EXCEPT ![i].dl = "False", ![i].pc = "dl_done"]
          /\ UNCHANGED fs
    /\ UNCHANGED <<crawlVars, progress_data, run_pc, submitted, collected, analyzed_logs>>
    /\ UNCHANGED <<schedVars, extractVars>>

\* main.py:149: response.read(); on an error the with statement closes the
\* file, which stays where it is (151-153)
DlRead(i) ==
    /\ tasks[i].pc = "dl_read"
    /\ \/ tasks' = [tasks EXCEPT ![i].pc = "dl_write"]
       \/ tasks' = [tasks EXCEPT ![i].dl = "False", ![i].pc = "dl_done"]
    /\ UNCHANGED <<crawlVars, progress_data, run_pc, fs, submitted, collected, analyzed_logs>>
    /\ UNCHANGED <<schedVars, extractVars>>

\* main.py:149-150: out_file.write(...) and the close of the file; an I/O
\* error leaves the bytes written so far (151-153)
DlWrite(i) ==
    /\ tasks[i].pc = "dl_write"
    /\ \/ /\ fs' = [fs EXCEPT ![TaskPath(i)] = Full(TaskUrl(i))]
          /\ tasks' = [tasks EXCEPT ![i].dl = "True", ![i].pc = "dl_done"]
       \/ /\ fs' = [fs EXCEPT ![TaskPath(i)] = Partial]
          /\ tasks' = [tasks EXCEPT ![i].dl = "False", ![i].pc = "dl_done"]
    /\ UNCHANGED <<crawlVars, progress_data, run_pc, submitted, collected, analyzed_logs>>
    /\ UNCHANGED <<schedVars, extractVars>>

\* a unit of work that goes on to the analysis whatever the download returned
DownloadFailed_Ignored(i) == FALSE

\* main.py:535: not download_log_file(log_url, save_path)
DownloadFailed(i) == tasks[i].dl = "False"

\* main.py:535-537: the result of the download; the "Analyzing" status
TaskAfterDownload(i) ==
    /\ tasks[i].pc = "dl_done"
    /\ IF DownloadFailed(i)
       THEN /\ tasks' = [tasks EXCEPT ![i].pc = "done",
                                      ![i].doneAt = Cardinality(Finished) + 1]
            /\ UNCHANGED progress_data
       ELSE /\ SetStatus(Msg("Analyzing", i, NumFailed, LogName(TaskUrl(i))))
            /\ tasks' = [tasks EXCEPT ![i].pc = "an_read"]
    /\ UNCHANGED <<crawlVars, run_pc, fs, submitted, collected, analyzed_logs>>
    /\ UNCHANGED <<schedVars, extractVars>>

\* main.py:157-161: analyze_with_ai is called and reads the downloaded file
AnRead(i) ==
    /\ tasks[i].pc = "an_read"
    /\ tasks' = [tasks EXCEPT ![i].ai = @ + 1,
                              ![i].content = fs[TaskPath(i)],
                              ![i].torn = Writing(TaskPath(i)) # {},
                              ![i].pc = "an_query"]
    /\ UNCHANGED <<crawlVars, progress_data, run_pc, fs, submitted, collected, analyzed_logs>>
    /\ UNCHANGED <<schedVars, extractVars>>

\* main.py:200-221: the result of analyze_with_ai (the task holds None, <<>>,
\* or <<result>>)
Result(i, reason) ==
    [name |-> TaskPath(i), log_url |-> TaskUrl(i), reason |-> reason,
     content |-> tasks[i].content]

\* an except clause that returns None instead of the degraded result
AnalyzeOutcome_None(i, ok) ==
    IF ok THEN <<Result(i, "ok")>> ELSE <<>>

\* main.py:200-221: the value analyze_with_ai returns when the pipeline
\* answered (ok) and when it raised
AnalyzeOutcome(i, ok) ==
    IF ok THEN <<Result(i, "ok")>> ELSE <<Result(i, "Pipeline error")>>

\* main.py:163-221: the pipeline answers, or raises (service unavailable,
\* timeout) and the except clause returns the "Pipeline error" result
AnQuery(i) ==
    /\ tasks[i].pc = "an_query"
    /\ \E ok \in BOOLEAN :
         tasks' = [tasks EXCEPT ![i].res = AnalyzeOutcome(i, ok), ![i].pc = "done",
                                ![i].pipeline = IF ok THEN "ok" ELSE "raised",
                                ![i].doneAt = Cardinality(Finished) + 1]
    /\ UNCHANGED <<crawlVars, progress_data, run_pc, fs, submitted, collected, analyzed_logs>>
    /\ UNCHANGED <<schedVars, extractVars>>

\* taking the futures from the end of the list
NextFuture_Pop == Len(tasks) - collected

\* main.py:542: the futures are taken in the order of the list
NextFuture == collected + 1

\* a result() that returns at once, whether the call is over or not
FutureDone_NoWait(i) == TRUE

\* main.py:543: future.result() returns once the call of analyze_one is over
FutureDone(i) == tasks[i].pc = "done"

\* main.py:542-545: future.result() of the next future in submission order
RunGather ==
    /\ run_pc = "gather"
    /\ IF collected < Len(tasks)
       THEN /\ FutureDone(NextFuture)
            /\ analyzed_logs' = analyzed_logs \o tasks[NextFuture].res
            /\ collected' = collected + 1
            /\ UNCHANGED run_pc
       ELSE /\ run_pc' = "report"
            /\ UNCHANGED <<analyzed_logs, collected>>
    /\ UNCHANGED <<crawlVars, progress_data, fs, tasks, submitted>>
    /\ UNCHANGED <<schedVars, extractVars>>

\* main.py:547-552: generate_html_report raises StopIteration on an empty
\* result list (main.py:232), which the except clause turns into the error
\* status
RunReport ==
    /\ run_pc = "report"
    /\ IF analyzed_logs = <<>>
       THEN SetError
       ELSE SetStatus(Msg("Complete", 0, Len(analyzed_logs), <<>>))
    /\ run_pc' = "done"
    /\ UNCHANGED <<crawlVars, fs, tasks, submitted, collected, analyzed_logs>>
    /\ UNCHANGED <<schedVars, extractVars>>

Init ==
    /\ web \in RunWebs
    /\ max_depth = RunMaxDepth
    /\ crawl_pc = "idle"
    /\ stack = <<>>
    /\ all_logs = <<>>
    /\ failed_logs = <<>>
    /\ visited = {}
    /\ crawl_ret = NoRet
    /\ progress_data = <<>>
    /\ run_pc = "none"
    /\ fs = [p \in Paths |-> Absent]
    /\ tasks = <<>>
    /\ submitted = 0
    /\ collected = 0
    /\ analyzed_logs = <<>>
    /\ requests = 1
    /\ cur = 0
    /\ parked = <<>>
    /\ ExtractIdle

Worker ==
    \E i \in 1..Len(tasks) :
        \/ TaskStart(i)
        \/ DlCheck(i)
        \/ DlUrlopen(i)
        \/ DlOpen(i)
        \/ DlRead(i)
        \/ DlWrite(i)
        \/ TaskAfterDownload(i)
        \/ AnRead(i)
        \/ AnQuery(i)

Crawl ==
    /\ run_pc = "crawling"
    /\ \/ CrawlEnter
       \/ CrawlAnchor
       \/ CrawlPageEnd
       \/ CollectReturn

Next ==
    \/ start_analysis
    \/ RunDebug
    \/ RunProbe
    \/ RunCollectCall
    \/ Crawl
    \/ RunCollectRaised
    \/ RunRecordTotal
    \/ RunRecordFailed
    \/ RunCheck
    \/ RunSubmit
    \/ Worker
    \/ RunGather
    \/ RunReport

Spec == Init /\ [][Next]_vars

\* the sites of the specification of concurrent runs
RunsWebs == {WebOne, WebEmpty}

\* main.py:510: the background threads of two requests run concurrently; the
\* scheduler sets the running thread aside and resumes the thread of run r
Switch(r) ==
    /\ cur # 0
    /\ r \in DOMAIN parked
    /\ parked[r].run_pc \notin {"done", "raised"}
    /\ cur' = r
    /\ parked' = [k \in (DOMAIN parked \ {r}) \cup {cur} |->
                     IF k = cur THEN Locals ELSE parked[k]]
    /\ Load(parked[r])
    /\ UNCHANGED <<web, progress_data, fs, requests, extractVars>>

\* MaxRuns requests to POST /analyze are pending
InitRuns ==
    /\ web \in RunsWebs
    /\ max_depth = RunMaxDepth
    /\ crawl_pc = "idle"
    /\ stack = <<>>
    /\ all_logs = <<>>
    /\ failed_logs = <<>>
    /\ visited = {}
    /\ crawl_ret = NoRet
    /\ progress_data = <<>>
    /\ run_pc = "none"
    /\ fs = [p \in Paths |-> Absent]
    /\ tasks = <<>>
    /\ submitted = 0
    /\ collected = 0
    /\ analyzed_logs = <<>>
    /\ requests = MaxRuns
    /\ cur = 0
    /\ parked = <<>>
    /\ ExtractIdle

NextRuns ==
    \/ Next
    \/ \E r \in ReportIds : Switch(r)

SpecRuns == InitRuns /\ [][NextRuns]_vars

LogUrl(n) == U(<< <<"s">> >>, LogHref(n))

FourLogs == <<LogUrl("b"), LogUrl("t"), LogUrl("u"), LogUrl("x")>>

\* a run at main.py:525 whose crawl of WebFour has returned the four failed
\* logs: more units of work than the pool has threads
InitPool ==
    /\ web = WebFour
    /\ max_depth = RunMaxDepth
    /\ crawl_pc = "returned"
    /\ stack = <<>>
    /\ all_logs = FourLogs
    /\ failed_logs = FourLogs
    /\ visited = {[url |-> BASE_PATH, depth |-> 0, via |-> <<>>, ok |-> TRUE,
                   path |-> <<>>]}
    /\ crawl_ret = [all |-> FourLogs, failed |-> FourLogs]
    /\ progress_data = (1 :> [status |-> <<Msg("Initializing", 0, 0, <<>>)>>,
                              total_logs |-> 4, failed_logs |-> 4])
    /\ run_pc = "check"
    /\ fs = [p \in Paths |-> Absent]
    /\ tasks = <<>>
    /\ submitted = 0
    /\ collected = 0
    /\ analyzed_logs = <<>>
    /\ requests = 0
    /\ cur = 1
    /\ parked = <<>>
    /\ ExtractIdle

NextPool ==
    \/ RunCheck
    \/ RunSubmit
    \/ Worker
    \/ RunGather
    \/ RunReport

SpecPool == InitPool /\ [][NextPool]_vars

----------------------------------------------------------------------------
(* utils.py: extract_error_blocks.  A line is a sequence of tokens, each   *)
(* token a piece of text: "TS" is a timestamp 2024-01-01 00:00:00, NL the  *)
(* line end, TAB a tab, " " blanks, Delim the separator of the log format. *)

MaxLines == 4

NL == "\n"
TAB == "\t"
Delim == " - "
Whitespace == {NL, TAB, " "}

\* sub in line, for a sub that is one token
Contains(line, sub) == \E i \in 1..Len(line) : line[i] = sub

\* line.split(" - ")
RECURSIVE SplitDelim(_)
SplitDelim(line) ==
    IF line = <<>> THEN << <<>> >>
    ELSE LET rest == SplitDelim(Tail(line))
         IN  IF Head(line) = Delim
             THEN << <<>> >> \o rest
             ELSE << <<Head(line)>> \o Head(rest) >> \o Tail(rest)

\* an error line of any field count
ErrorMessage_AnyField(line) == Contains(line, "ERROR")

\* utils.py:12-15: components[3] is the fourth component
ErrorMessage(line) ==
    LET components == SplitDelim(line)
    IN  IF Len(components) > 4 THEN Contains(components[4], "ERROR") ELSE FALSE

\* utils.py:16
IsBlockStart(line) == ErrorMessage(line) \/ Contains(line, "Traceback")

\* utils.py:26: re.match of the timestamp pattern at the start of the line
MatchesTimestamp(line) == line # <<>> /\ line[1] = "TS"

\* line.strip() == ""
StripsToEmpty(line) == \A i \in 1..Len(line) : line[i] \in Whitespace

\* utils.py:23-28
IsContinuation(line) ==
    \/ (line # <<>> /\ line[1] = TAB)
    \/ StripsToEmpty(line)
    \/ ~MatchesTimestamp(line)
    \/ (line # <<>> /\ line[1] = "Traceback")

\* "".join(block)
RECURSIVE Join(_)
Join(block) == IF block = <<>> THEN <<>> ELSE Head(block) \o Join(Tail(block))

\* text.rstrip("\n")
RECURSIVE RStripNL(_)
RStripNL(text) ==
    IF text # <<>> /\ text[Len(text)] = NL
    THEN RStripNL(SubSeq(text, 1, Len(text) - 1))
    ELSE text

\* a block that is put in front of the earlier ones
Emit_Front(blocks, block) == <<RStripNL(Join(block))>> \o blocks

\* utils.py:18, 31, 36: error_blocks.append("".join(current_block).rstrip("\n"))
Emit(blocks, block) == Append(blocks, RStripNL(Join(block)))

\* the lines of the spec's example and of the log format
LineInfo == <<"TS", " ", "INFO", " ", "w">>
LineTraceback == <<"Traceback", " ", "w">>
LineIndented == <<" ", "w">>
LineError == <<"TS", Delim, "w", Delim, "w", Delim, "ERROR", Delim, "w">>
LineErrorFourFields == <<"TS", Delim, "w", Delim, "w", Delim, "ERROR">>
LineErrorOtherField == <<"TS", Delim, "ERROR", Delim, "w", Delim, "w", Delim, "w">>
LineTimedTraceback == <<"TS", " ", "Traceback">>
LineTab == <<TAB, "w">>
LineBlank == <<>>

LineKinds == {LineInfo, LineTraceback, LineIndented, LineError, LineErrorFourFields,
              LineErrorOtherField, LineTimedTraceback, LineTab, LineBlank}

\* the lines a text file yields: each ends with the line end, except that
\* the last one may lack it when it is not empty
FileLines ==
    UNION {
      {[i \in 1..n |-> IF i = n /\ ~f[n].nl THEN f[i].l ELSE f[i].l \o <<NL>>] :
         f \in {g \in [1..n -> [l : LineKinds, nl : BOOLEAN]] :
                  /\ \A i \in 1..n : i < n => g[i].nl
                  /\ n > 0 => (g[n].l # <<>> \/ g[n].nl)}}
      : n \in 0..MaxLines}

\* utils.py:10: open(log_path); a failure is caught at utils.py:37 and the
\* empty list is returned
ExOpen ==
    /\ ex_pc = "idle"
    /\ \/ ex_pc' = "scan"
       \/ ex_pc' = "failed"
    /\ UNCHANGED <<log_lines, line_no, error_blocks, current_block, in_error_block>>
    /\ UNCHANGED <<crawlVars, runVars, schedVars>>

\* utils.py:11-33: one iteration of the loop
ExLine ==
    /\ ex_pc = "scan"
    /\ line_no < Len(log_lines)
    /\ line_no' = line_no + 1
    /\ LET line == log_lines[line_no + 1]
       IN  IF IsBlockStart(line)
           THEN /\ error_blocks' = IF current_block # <<>>
                                   THEN Emit(error_blocks, current_block)
                                   ELSE error_blocks
                /\ in_error_block' = TRUE
                /\ current_block' = <<line>>
           ELSE IF in_error_block
           THEN IF IsContinuation(line)
                THEN /\ current_block' = Append(current_block, line)
                     /\ UNCHANGED <<error_blocks, in_error_block>>
                ELSE /\ error_blocks' = Emit(error_blocks, current_block)
                     /\ current_block' = <<>>
                     /\ in_error_block' = FALSE
           ELSE UNCHANGED <<error_blocks, current_block, in_error_block>>
    /\ UNCHANGED <<log_lines, ex_pc>>
    /\ UNCHANGED <<crawlVars, runVars, schedVars>>

\* utils.py:11, 37-40: reading the next line raises; the blocks emitted so
\* far are returned
ExReadError ==
    /\ ex_pc = "scan"
    /\ line_no < Len(log_lines)
    /\ ex_pc' = "failed"
    /\ UNCHANGED <<log_lines, line_no, error_blocks, current_block, in_error_block>>
    /\ UNCHANGED <<crawlVars, runVars, schedVars>>

\* utils.py:35-36, 40: the end of the input
ExEnd ==
    /\ ex_pc = "scan"
    /\ line_no = Len(log_lines)
    /\ error_blocks' = IF current_block # <<>>
                       THEN Emit(error_blocks, current_block)
                       ELSE error_blocks
    /\ ex_pc' = "returned"
    /\ UNCHANGED <<log_lines, line_no, current_block, in_error_block>>
    /\ UNCHANGED <<crawlVars, runVars, schedVars>>

\* extract_error_blocks(log_path) is called on a file of at most MaxLines lines
InitExtract ==
    /\ web = WebEmpty
    /\ max_depth = RunMaxDepth
    /\ crawl_pc = "idle"
    /\ stack = <<>>
    /\ all_logs = <<>>
    /\ failed_logs = <<>>
    /\ visited = {}
    /\ crawl_ret = NoRet
    /\ progress_data = <<>>
    /\ run_pc = "none"
    /\ fs = [p \in Paths |-> Absent]
    /\ tasks = <<>>
    /\ submitted = 0
    /\ collected = 0
    /\ analyzed_logs = <<>>
    /\ requests = 0
    /\ cur = 0
    /\ parked = <<>>
    /\ log_lines \in FileLines
    /\ line_no = 0
    /\ error_blocks = <<>>
    /\ current_block = <<>>
    /\ in_error_block = FALSE
    /\ ex_pc = "idle"

NextExtract ==
    \/ ExOpen
    \/ ExLine
    \/ ExReadError
    \/ ExEnd

SpecExtract == InitExtract /\ [][NextExtract]_vars

----------------------------------------------------------------------------
(* Properties of the crawler *)


LogB == U(<< <<"s">> >>, LogHref("b"))

\* C1: crawl never fetches a page at a depth greater than max_depth (the root
\* is depth 0); with max_depth = 0 only the root page is fetched.
C1_DepthBound ==
    /\ \A v \in visited : v.depth <= max_depth
    /\ max_depth = 0 => \A v \in visited : v.url = BASE_PATH /\ v.depth = 0

\* a page at depth max_depth >= 1 was fetched, it has a subdirectory link,
\* and the crawl is over
C1_Witness ==
    /\ crawl_pc = "returned"
    /\ \E v \in visited :
         /\ v.ok /\ v.depth = max_depth /\ v.depth >= 1
         /\ \E i \in 1..Len(web[v.url]) : ShouldRecurse(web[v.url][i].href)

\* C2: the returned failed-log collection holds no URL twice.
C2_NoDuplicate ==
    crawl_pc = "returned" =>
        \A i, j \in 1..Len(crawl_ret.failed) :
            i # j => crawl_ret.failed[i] # crawl_ret.failed[j]

\* the same failed log was discovered more than once, on one page and on
\* different pages
C2_Witness ==
    /\ crawl_pc = "returned"
    /\ \E i, j, k \in 1..Len(failed_logs) :
         /\ i < j /\ j < k
         /\ failed_logs[i] = failed_logs[j] /\ failed_logs[j] = failed_logs[k]
    /\ Cardinality({v \in visited : v.ok}) >= 2

\* the example listing was fetched and crawled with maxDepth >= 1
ExampleCrawled ==
    /\ web = WebExample
    /\ max_depth >= 1
    /\ crawl_pc = "returned"
    /\ \E v \in visited : v.url = BASE_PATH /\ v.ok

VisitedAt(url, depth) == \E v \in visited : v.url = url /\ v.depth = depth

\* C3 as stated: the example listing yields allLogs = [b.log],
\* failedLogs = {b.log} and a visit of a/ at depth 1.
C3_Original ==
    ExampleCrawled =>
        /\ crawl_ret.all = <<LogB>>
        /\ Range(crawl_ret.failed) = {LogB}
        /\ VisitedAt(DirA, 1)

\* C3 amended: the example listing yields allLogs = [b.log, b.log] (the
\* marker anchor's href ends with .log too), failedLogs = [b.log] and a visit
\* of a/ at depth 1.
C3_Example ==
    ExampleCrawled =>
        /\ crawl_ret.all = <<LogB, LogB>>
        /\ crawl_ret.failed = <<LogB>>
        /\ VisitedAt(DirA, 1)

C3_Witness == ExampleCrawled /\ Len(all_logs) = 2

\* C4: no page is fetched as a result of following a './' or '../' link.
C4_NoSelfParent ==
    \A v \in visited : v.via # SelfHref /\ v.via # ParentHref

\* C5: when the fetch of a page fails, the crawl goes on: every anchor of
\* every page that was fetched is processed (its log is in allLogs, its
\* failed marker in failedLogs, its subdirectory fetched when within depth).
C5_FailureIsLocal ==
    crawl_pc = "returned" =>
        \A v \in visited : v.ok =>
            \A i \in 1..Len(web[v.url]) :
                LET link == web[v.url][i]
                    target == urljoin(v.url, link.href)
                IN  /\ IsLogHref(link.href) => target \in Range(crawl_ret.all)
                    /\ IsFailedMarker(link) => target \in Range(crawl_ret.failed)
                    /\ (ShouldRecurse(link.href) /\ v.depth < max_depth)
                         => VisitedAt(target, v.depth + 1)

\* the fetch of a subdirectory failed, and its parent page has a log link
\* after the link to it
C5_Witness ==
    /\ crawl_pc = "returned"
    /\ \E v, p \in visited :
         /\ ~v.ok /\ p.ok /\ p.depth + 1 = v.depth
         /\ \E i, j \in 1..Len(web[p.url]) :
              /\ i < j
              /\ ShouldRecurse(web[p.url][i].href)
              /\ urljoin(p.url, web[p.url][i].href) = v.url
              /\ IsLogHref(web[p.url][j].href)
              /\ urljoin(p.url, web[p.url][j].href) \in Range(crawl_ret.all)

----------------------------------------------------------------------------
(* Properties of the download cache and of the run *)

TaskIds == 1..Len(tasks)

\* C6: a call of download_log_file made after a call for the same path has
\* returned success returns success and makes no network transfer.
C6_Idempotent ==
    \A i \in TaskIds :
        tasks[i].late => (tasks[i].dl = "True" /\ ~tasks[i].fetched)

\* one call transferred the file and returned success, a later call for the
\* same path has returned
C6_Witness ==
    \E i, j \in TaskIds :
        /\ i # j /\ TaskPath(i) = TaskPath(j)
        /\ tasks[j].fetched /\ tasks[j].dl = "True"
        /\ tasks[i].late /\ tasks[i].pc = "done"

\* C7: when download_log_file returns failure, no empty or partial file is
\* left at the destination path.
C7_NoPartialLeft ==
    \A i \in TaskIds :
        (tasks[i].dl = "False" /\ Writing(TaskPath(i)) = {})
            => fs[TaskPath(i)].state \notin {"empty", "partial"}

\* a call that holds a response and has not returned yet
Downloading(i) == tasks[i].pc \in {"dl_open", "dl_read", "dl_write"}

\* C8: two workers with the same destination path never download it at the
\* same time, and no worker reads a file another one is still writing.
C8_NoRace ==
    /\ \A i, j \in TaskIds :
         (i # j /\ TaskPath(i) = TaskPath(j)) => ~(Downloading(i) /\ Downloading(j))
    /\ \A i \in TaskIds : ~tasks[i].torn

NoFailuresRun ==
    /\ run_pc = "done"
    /\ crawl_pc = "returned"
    /\ crawl_ret.failed = <<>>

\* C9: when the crawler returns no failed logs, the run ends with the
\* "no failures" status, an empty result sequence, and no unit of work, no
\* download and no Analyzer call.
C9_NoFailures ==
    NoFailuresRun =>
        /\ Status[Len(Status)].kind = "NoFailed"
        /\ analyzed_logs = <<>>
        /\ submitted = 0 /\ tasks = <<>>
        /\ \A p \in Paths : fs[p] = Absent

\* the crawler found logs, none of them failed, and the run is over
C9_Witness == NoFailuresRun /\ Len(crawl_ret.all) > 0

FirstIndex(seq, x) ==
    CHOOSE i \in 1..Len(seq) : seq[i] = x /\ \A j \in 1..(i - 1) : seq[j] # x

\* C10: the results handed to the report are in the order in which the
\* crawler first discovered their failed logs.
C10_DiscoveryOrder ==
    run_pc \in {"report", "done"} =>
        \A p, q \in 1..Len(analyzed_logs) :
            p < q => FirstIndex(failed_logs, analyzed_logs[p].log_url)
                       < FirstIndex(failed_logs, analyzed_logs[q].log_url)

----------------------------------------------------------------------------
(* Properties of the pool *)

RECURSIVE SumAi(_)
SumAi(n) == IF n = 0 THEN 0 ELSE tasks[n].ai + SumAi(n - 1)

\* the number of analyze_with_ai calls made so far
AnalyzerCalls == SumAi(Len(tasks))

Downloaded == {i \in TaskIds : tasks[i].dl = "True"}

PoolOver ==
    /\ run_pc \in {"report", "done"}
    /\ NumFailed > 0
    /\ collected = NumFailed

\* C11 as stated: a run with N failed logs makes exactly N Analyzer
\* invocations and returns at most N results.
C11_Original ==
    PoolOver =>
        /\ AnalyzerCalls = NumFailed
        /\ Len(analyzed_logs) <= NumFailed

\* C11 amended: a run with N failed logs makes exactly one Analyzer
\* invocation for each failed log whose download succeeded (N when every
\* download succeeds) and returns one result per invocation, at most N.
C11_OnePerDownload ==
    /\ \A i \in TaskIds : /\ tasks[i].ai <= 1
                          /\ tasks[i].ai = 1 => tasks[i].dl = "True"
    /\ PoolOver =>
            /\ Len(tasks) = NumFailed
            /\ \A i \in TaskIds : tasks[i].ai = (IF tasks[i].dl = "True" THEN 1 ELSE 0)
            /\ AnalyzerCalls = Cardinality(Downloaded)
            /\ Len(analyzed_logs) = AnalyzerCalls
            /\ Len(analyzed_logs) <= NumFailed

\* four failed logs on a pool of three threads, one download failed and the
\* others were analyzed
C11_Witness ==
    /\ PoolOver
    /\ NumFailed > MaxWorkers
    /\ Cardinality(Downloaded) = NumFailed - 1
    /\ AnalyzerCalls = NumFailed - 1

\* C12: download failures, of any subset of the failed logs, do not fail the
\* run: it ends with the success status counting the downloaded logs, whose
\* results are the ones produced.
C12_DownloadFailureNotFatal ==
    (PoolOver /\ run_pc = "done") =>
        /\ Status[Len(Status)].kind = "Complete"
        /\ Status[Len(Status)].n = Cardinality(Downloaded)
        /\ Len(analyzed_logs) = Cardinality(Downloaded)

\* C13: a failure of the pipeline inside analyze_with_ai gives the
\* "Pipeline error" result for that log, and every log that was downloaded
\* has its result in the result sequence.
C13_Degraded ==
    /\ \A i \in TaskIds :
         (tasks[i].pc = "done" /\ tasks[i].ai > 0) =>
             /\ Len(tasks[i].res) = 1
             /\ tasks[i].res[1].log_url = TaskUrl(i)
             /\ tasks[i].res[1].reason =
                  (IF tasks[i].pipeline = "raised" THEN "Pipeline error" ELSE "ok")
    /\ PoolOver =>
         \A i \in Downloaded :
             \E k \in 1..Len(analyzed_logs) : <<analyzed_logs[k]>> = tasks[i].res

\* the pipeline failed for one of four logs and the three others were
\* analyzed; the four results are in the result sequence
C13_Witness ==
    /\ PoolOver
    /\ NumFailed > MaxWorkers
    /\ Cardinality({i \in TaskIds : tasks[i].pipeline = "raised"}) = 1
    /\ Cardinality({i \in TaskIds : tasks[i].pipeline = "ok"}) = NumFailed - 1
    /\ Len(analyzed_logs) = NumFailed

\* C14: no exception leaves run_analysis; an error ends the run with the
\* error status, after which no unit of work runs.
C14_NoEscape ==
    /\ run_pc # "raised"
    /\ (cur # 0 /\ Status[Len(Status)].kind = "Error") =>
         (run_pc = "done" /\ \A i \in TaskIds : tasks[i].pc = "done")

\* C15: a step of a pool worker never changes the progress record.
C15_OnlyOrchestratorWrites ==
    [][(progress_data' # progress_data) => (tasks' = tasks)]_vars

\* C16: a step of the run with key A leaves the record stored under every
\* other key as it was.
C16_NoInterference ==
    [][\A k \in DOMAIN progress_data :
          (k # cur') => /\ k \in DOMAIN progress_data'
                        /\ progress_data'[k] = progress_data[k]]_vars

\* two runs are in their pools at the same time, a worker of each has written
\* the status of its run, and the two records differ
C16_Witness ==
    /\ cur # 0
    /\ \E r \in DOMAIN parked :
         /\ r # cur
         /\ parked[r].run_pc = "gather"
         /\ \E i \in 1..Len(parked[r].tasks) : parked[r].tasks[i].pc = "an_query"
         /\ progress_data[r].status[1].kind = "Analyzing"
    /\ run_pc = "gather"
    /\ \E i \in TaskIds : tasks[i].pc = "dl_check"
    /\ Status[1].kind = "Checking"

\* C20: the result sequence holds the results of the futures collected so
\* far in submission index order, whatever the order in which the workers
\* finished.
RECURSIVE ResultsUpTo(_)
ResultsUpTo(n) == IF n = 0 THEN <<>> ELSE ResultsUpTo(n - 1) \o tasks[n].res

C20_SubmissionOrder ==
    /\ collected <= Len(tasks)
    /\ analyzed_logs = ResultsUpTo(collected)
    /\ \A k, l \in 1..Len(analyzed_logs) :
         k < l => \E i, j \in TaskIds :
                     /\ i < j
                     /\ <<analyzed_logs[k]>> = tasks[i].res
                     /\ <<analyzed_logs[l]>> = tasks[j].res

\* item j finished before item i, which was submitted first, and both
\* results were collected
C20_Witness ==
    /\ PoolOver
    /\ Len(analyzed_logs) >= 2
    /\ \E i, j \in TaskIds :
         /\ i < j
         /\ tasks[i].res # <<>>
         /\ tasks[j].res # <<>>
         /\ tasks[j].doneAt < tasks[i].doneAt

----------------------------------------------------------------------------
(* Properties of extract_error_blocks *)

\* the four lines of the example
ExampleLines ==
    <<LineInfo \o <<NL>>, LineTraceback \o <<NL>>, LineIndented \o <<NL>>,
      LineInfo \o <<NL>>>>

\* the number of the field (from 0) in which token i of the line lies
FieldOf(line, i) == Cardinality({j \in 1..i : line[j] = Delim})

\* a block-start line: it contains "Traceback", or has more than 4 fields
\* and "ERROR" in field 3
StartLine(line) ==
    \/ \E i \in 1..Len(line) : line[i] = "Traceback"
    \/ /\ Cardinality({j \in 1..Len(line) : line[j] = Delim}) >= 4
       /\ \E i \in 1..Len(line) : line[i] = "ERROR" /\ FieldOf(line, i) = 3

TimestampPrefixed(line) == Len(line) > 0 /\ line[1] = "TS"

Starts == {n \in 1..Len(log_lines) : StartLine(log_lines[n])}

NthStart(k) == CHOOSE n \in Starts : Cardinality({m \in Starts : m <= n}) = k

\* the last line of the block that opens at line n: every line after n up to
\* it is neither a start line nor timestamp-prefixed
BlockLast(n) ==
    CHOOSE m \in n..Len(log_lines) :
        /\ \A j \in (n + 1)..m : /\ ~StartLine(log_lines[j])
                                 /\ ~TimestampPrefixed(log_lines[j])
        /\ \/ m = Len(log_lines)
           \/ StartLine(log_lines[m + 1])
           \/ TimestampPrefixed(log_lines[m + 1])

ExpectedBlock(n) == RStripNL(Join(SubSeq(log_lines, n, BlockLast(n))))

\* C17: one block per block-start line, made of the start line and of the
\* lines after it up to the first timestamp-prefixed line or the next start
\* line or the end of the input; the example gives one block holding its
\* second and third lines.
C17_OneBlockPerStart ==
    ex_pc = "returned" =>
        /\ Len(error_blocks) = Cardinality(Starts)
        /\ \A k \in 1..Len(error_blocks) : error_blocks[k] = ExpectedBlock(NthStart(k))
        /\ (log_lines = ExampleLines) =>
               error_blocks = <<LineTraceback \o <<NL>> \o LineIndented>>

C17_Witness ==
    /\ ex_pc = "returned"
    /\ log_lines = ExampleLines
    /\ Len(error_blocks) = 1

\* C18: while in a block, a line that contains "Traceback" is appended to
\* the current block; it closes no block and opens none.
C18_TracebackContinues ==
    [][(/\ ex_pc = "scan"
        /\ in_error_block
        /\ line_no' = line_no + 1
        /\ \E i \in 1..Len(log_lines[line_no + 1]) :
              log_lines[line_no + 1][i] = "Traceback")
       => /\ error_blocks' = error_blocks
          /\ current_block' = Append(current_block, log_lines[line_no + 1])]_vars

\* text.split("\n")
RECURSIVE SplitNL(_)
SplitNL(text) ==
    IF text = <<>> THEN << <<>> >>
    ELSE LET rest == SplitNL(Tail(text))
         IN  IF Head(text) = NL
             THEN << <<>> >> \o rest
             ELSE << <<Head(text)>> \o Head(rest) >> \o Tail(rest)

\* the line without its line end
Chomp(line) ==
    IF line # <<>> /\ line[Len(line)] = NL THEN SubSeq(line, 1, Len(line) - 1) ELSE line

\* the blocks are runs of consecutive input lines, one after the other, all
\* at or after line from
RECURSIVE Embeds(_, _)
Embeds(blocks, from) ==
    \/ blocks = <<>>
    \/ \E s \in from..Len(log_lines) :
          LET bl == SplitNL(Head(blocks))
          IN  /\ s + Len(bl) - 1 <= Len(log_lines)
              /\ \A j \in 1..Len(bl) : Chomp(log_lines[s + j - 1]) = bl[j]
              /\ Embeds(Tail(blocks), s + Len(bl))

\* C19: the blocks are in document order, each a contiguous run of input
\* lines, no line in two blocks: their lines are a subsequence of the input.
C19_Subsequence == Embeds(error_blocks, 1)

\* two blocks, the first of two lines, after a line that is in no block
C19_Witness ==
    /\ ex_pc = "returned"
    /\ Len(log_lines) = MaxLines
    /\ ~StartLine(log_lines[1])
    /\ Len(error_blocks) = 2
    /\ Len(SplitNL(error_blocks[1])) = 2
    /\ error_blocks[1] # error_blocks[2]

----------------------------------------------------------------------------
(* Properties of the pool width, of termination, of the cache and of the  *)
(* progress record *)

\* C21: at most MaxWorkers units of work are in progress at any moment; a
\* unit of work beyond the first MaxWorkers has started only after enough
\* earlier ones have finished.
C21_PoolWidth ==
    /\ Cardinality(Running) <= MaxWorkers
    /\ \A i \in TaskIds :
         tasks[i].pc # "queued" =>
             Cardinality({j \in 1..(i - 1) : tasks[j].pc = "done"}) >= i - MaxWorkers

\* every worker is busy and a unit of work waits
C21_Witness ==
    /\ run_pc = "gather"
    /\ NumFailed > MaxWorkers
    /\ Cardinality(Running) = MaxWorkers
    /\ \E i \in TaskIds : tasks[i].pc = "queued"

\* the positions at which a page of the site has an anchor
AnchorIndices == UNION {1..Len(web[u]) : u \in DOMAIN web}

\* the page that the anchors of path lead to, from url
RECURSIVE PathTarget(_, _)
PathTarget(url, path) ==
    IF path = <<>> THEN url
    ELSE PathTarget(urljoin(url, web[url][Head(path)].href), Tail(path))

\* path names an anchor of the page at url, then an anchor of the page that
\* one links to, and so on
RECURSIVE IsLinkPathFrom(_, _)
IsLinkPathFrom(url, path) ==
    \/ path = <<>>
    \/ /\ url \in DOMAIN web
       /\ Head(path) <= Len(web[url])
       /\ IsLinkPathFrom(urljoin(url, web[url][Head(path)].href), Tail(path))

\* the link paths of length at most max_depth from the root
LinkPaths ==
    {p \in UNION {[1..n -> AnchorIndices] : n \in 0..max_depth} :
        IsLinkPathFrom(BASE_PATH, p)}

CrawlOver == crawl_pc \in {"returned", "raised"}

\* C22: the crawl terminates, and every page fetch is the end of a link path
\* of its own of length at most max_depth from the root, so that there are
\* no more fetches than such paths.
C22_Terminates ==
    /\ [](/\ \A v \in visited : /\ v.path \in LinkPaths
                                /\ Len(v.path) = v.depth
                                /\ PathTarget(BASE_PATH, v.path) = v.url
          /\ \A v, w \in visited : v.path = w.path => v = w
          /\ Cardinality(visited) <= Cardinality(LinkPaths))
    /\ <>CrawlOver

\* a crawl of the site with self links is over: a page was fetched again
\* through the link to itself, at a greater depth
C22_Witness ==
    /\ crawl_pc = "returned"
    /\ web = WebSelf
    /\ max_depth = MaxDepthBound
    /\ \E v, w \in visited : v.url = w.url /\ v.depth < w.depth /\ w.via = SelfHref

\* C23: a result is computed from the content served at its own log_url,
\* never from the complete file downloaded from another URL.
C23_OwnContent ==
    \A i \in TaskIds :
        (tasks[i].res # <<>> /\ tasks[i].res[1].content.state = "full") =>
            tasks[i].res[1].content.of = tasks[i].res[1].log_url

\* the last message of a status is one of the three that end a run
IsTerminal(status) == status[Len(status)].kind \in {"Complete", "NoFailed", "Error"}

\* C24: when the status of a key is terminal, no unit of work of the run is
\* waiting or in progress, and no step writes the record of that key again.
C24_TerminalIsLast ==
    /\ []((cur # 0 /\ IsTerminal(Status)) =>
             /\ run_pc = "done"
             /\ \A i \in TaskIds : tasks[i].pc = "done")
    /\ [][\A k \in DOMAIN progress_data :
             IsTerminal(progress_data[k].status) =>
                 /\ k \in DOMAIN progress_data'
                 /\ progress_data'[k] = progress_data[k]]_vars

\* the success status was written after the workers of several units of work
\* had written theirs
C24_Witness ==
    /\ cur # 0
    /\ run_pc = "done"
    /\ Status[Len(Status)].kind = "Complete"
    /\ Len(tasks) >= 2
    /\ \A i \in TaskIds : tasks[i].pc = "done"
    /\ \E i \in TaskIds : tasks[i].ai = 1

\* C25: every failed URL the crawler holds is among the log URLs it holds,
\* and in the record of every run the failed count is at most the total count.
C25_FailedWithinTotal ==
    /\ Range(failed_logs) \subseteq Range(all_logs)
    /\ Range(crawl_ret.failed) \subseteq Range(crawl_ret.all)
    /\ \A k \in DOMAIN progress_data :
         progress_data[k].failed_logs <= progress_data[k].total_logs

\* both counts are recorded, and some logs are failed and some are not
C25_Witness ==
    /\ cur # 0
    /\ run_pc = "check"
    /\ progress_data[cur].failed_logs > 0
    /\ progress_data[cur].failed_logs < progress_data[cur].total_logs

====
